---- MODULE Spec2Model ----
(***************************************************************************)
(* The kubernetes v2 ManifestSelector component (ManifestSelector.tsx):    *)
(* the shared Selector record, the two mode handlers, the field setters,   *)
(* the account load and the search$ pipeline                               *)
(* (do / switchMap / takeUntil / subscribe).                               *)
(*                                                                         *)
(* JavaScript values: a string is a sequence of one-character strings      *)
(* (<<>> is ''), null is Null and undefined is Undefined.                  *)
(***************************************************************************)
EXTENDS Integers, Sequences, FiniteSets, TLC

\* Bound on the number of lookups the search pipeline issues in one session.
MaxSearches == 2
\* Bound on the number of edits the user makes in one session.
MaxEdits == 3

Null == <<"null">>
Undefined == <<"undefined">>

\* JavaScript truthiness of a string-or-nullish value: null, undefined and ''
\* are falsy.
Truthy(v) == v # Null /\ v # Undefined /\ v # <<>>

\* v == null (loose equality): null or undefined.
IsNullish(v) == v = Null \/ v = Undefined

SelectorModeStatic == <<"static">>
SelectorModeDynamic == <<"dynamic">>

SP == " "

\* character codes, as String.prototype.sort compares them
CharCode(c) ==
  CASE c = " " -> 32
    [] c = "$" -> 36
    [] c = "D" -> 68
    [] c = "S" -> 83
    [] c = "a" -> 97
    [] c = "b" -> 98
    [] c = "m" -> 109
    [] c = "n" -> 110
    [] c = "x" -> 120
    [] c = "y" -> 121
    [] c = "{" -> 123
    [] OTHER -> 0

RECURSIVE StrLess(_, _)
StrLess(s, t) ==
  IF t = <<>> THEN FALSE
  ELSE IF s = <<>> THEN TRUE
  ELSE IF CharCode(s[1]) # CharCode(t[1]) THEN CharCode(s[1]) < CharCode(t[1])
  ELSE StrLess(Tail(s), Tail(t))

RECURSIVE InsertSorted(_, _)
InsertSorted(x, sorted) ==
  IF sorted = <<>> THEN <<x>>
  ELSE IF StrLess(x, sorted[1]) THEN <<x>> \o sorted
  ELSE <<sorted[1]>> \o InsertSorted(x, Tail(sorted))

\* Array.prototype.sort() on an array of strings
RECURSIVE SortStrings(_)
SortStrings(xs) ==
  IF xs = <<>> THEN <<>> ELSE InsertSorted(xs[1], SortStrings(Tail(xs)))

\* String.prototype.split(' ')
RECURSIVE Split(_)
Split(s) ==
  IF \A i \in 1..Len(s) : s[i] # SP THEN <<s>>
  ELSE LET i == CHOOSE j \in 1..Len(s) : s[j] = SP /\ \A k \in 1..(j - 1) : s[k] # SP
       IN <<SubSeq(s, 1, i - 1)>> \o Split(SubSeq(s, i + 1, Len(s)))

\* String.prototype.includes('${')
IncludesMarker(s) ==
  \E i \in 1..(Len(s) - 1) : s[i] = "$" /\ s[i + 1] = "{"

parseSpinnakerName(spinnakerName) ==
  LET parts == Split(IF Truthy(spinnakerName) THEN spinnakerName ELSE <<>>)
  IN [kind |-> parts[1],
      name |-> IF Len(parts) >= 2 THEN parts[2] ELSE Undefined]

\* isExpression(value = ''): the default applies to undefined only, so a null
\* argument reaches null.includes and throws a TypeError.
isExpressionThrows(value) == value = Null

isExpression(value) ==
  IncludesMarker(IF value = Undefined THEN <<>> ELSE value)

(***************************************************************************)
(* The environment: what the owner, the account service and the user can   *)
(* supply.                                                                 *)
(***************************************************************************)
KindD == <<"D">>
KindS == <<"S">>
AccountA == [name |-> <<"a">>,
             namespaces |-> << <<"y">>, <<"x">> >>,
             spinnakerKindMap |-> << <<KindD, "serverGroups">> >>]
AccountB == [name |-> <<"b">>,
             namespaces |-> << <<"y">> >>,
             spinnakerKindMap |-> << <<KindS, "loadBalancers">>, <<KindD, "serverGroups">> >>]
ExpressionValue == <<"$", "{">>

\* responses of AccountService.getAllAccountDetailsForProvider
AccountLists == { <<AccountA>>, <<AccountA, AccountB>> }
\* SETTINGS.providers.kubernetes.defaults.account
DefaultAccount == <<"b">>
\* props.includeSpinnakerKinds
includeSpinnakerKinds == <<"serverGroups">>

\* responses of ManifestKindSearchService.search: the name of each result
SearchResponses == { <<>>, << <<"D", " ", "n">>, <<"D", " ", "m">> >> }

\* values the user can enter in the Creatable fields (an absent option is null)
KindInputs == { Null, KindD }
NamespaceInputs == { Null, <<"x">>, ExpressionValue }
NameInputs == { <<>>, <<"n", " ", "m">> }
ClusterInputs == { <<"D", " ", "n">> }
CriteriaInputs == { <<"n">> }

FreshSelector ==
  [mode |-> Undefined, manifestName |-> Undefined, kind |-> Undefined,
   account |-> Undefined, location |-> Undefined, cluster |-> Undefined,
   criteria |-> Undefined]

\* a Selector the owner saved in an earlier session (Static, templated account)
SavedSelector ==
  [mode |-> SelectorModeStatic, manifestName |-> <<"D", " ", "n">>, kind |-> Undefined,
   account |-> ExpressionValue, location |-> <<"x">>, cluster |-> Undefined,
   criteria |-> Undefined]

\* props.selector
InitialSelectors == { FreshSelector, SavedSelector }

VARIABLES
  phase,        \* "constructed", "mounted" or "unmounted"
  selector,     \* the shared Selector (props.selector = state.selector)
  owner,        \* the Selector as last passed to props.onChange
  accounts,     \* state.accounts
  namespaces,   \* state.namespaces
  kinds,        \* state.kinds
  resources,    \* state.resources
  loading,      \* state.loading
  accountsPending, \* the promise of loadAccounts is outstanding
  pipeline,     \* the search$ subscription: "none", "live", "completed", "errored"
  lookups,      \* the promises returned by search(), in the order issued
  edits,        \* the number of edits the user has made
  modeChanged,  \* a handler's handleModeChange has run (history)
  last,         \* the operation that ran last and what it did (history)
  \* the Executions component (Executions.tsx)
  triggeringExecution, \* state.triggeringExecution
  triggerPromise,      \* the promise of triggerPipeline: "none", "pending", "resolved", "rejected"
  monitor,             \* the promise of waitUntilNewTriggeredPipelineAppears
  transition,          \* the router transition handled last: its from and to states
  scrolled             \* handleTransitionSuccess called scrollIntoView for it

selectorVars == <<phase, selector, owner, accounts, namespaces, kinds, resources, loading,
                  accountsPending, pipeline, lookups, edits, modeChanged, last>>

executionsVars == <<triggeringExecution, triggerPromise, monitor, transition, scrolled>>

vars == <<selectorVars, executionsVars>>

\* The mutable part of the component while one operation runs.
Ctx ==
  [selector |-> selector, owner |-> owner, accounts |-> accounts,
   namespaces |-> namespaces, kinds |-> kinds, resources |-> resources,
   loading |-> loading, pipeline |-> pipeline, lookups |-> lookups,
   notified |-> FALSE, pushed |-> <<>>, searched |-> <<>>, calls |-> <<>>,
   threw |-> FALSE]

\* this.setState(...): a no-op once the component is unmounted
Mounted == phase = "mounted"

\* props.onChange(selector), as setStateAndUpdateStage calls it when the partial
\* state holds the selector
NotifyOwner(c) == [c EXCEPT !.owner = c.selector, !.notified = TRUE]

(***************************************************************************)
(* The mode handlers.                                                      *)
(***************************************************************************)
StaticHandleKindChange(sel, kind) ==
  LET name == parseSpinnakerName(sel.manifestName).name
  IN [sel EXCEPT !.manifestName =
        IF Truthy(kind)
        THEN (IF Truthy(name) THEN kind \o <<SP>> \o name ELSE kind)
        ELSE name]

\* a handleModeChange that leaves the cluster in place
StaticHandleModeChangeKeepsCluster(c) ==
  LET sel == StaticHandleKindChange(c.selector, c.selector.kind)
  IN NotifyOwner([c EXCEPT !.selector = [sel EXCEPT !.kind = Null, !.criteria = Null]])

StaticHandleModeChange(c) ==
  LET sel == StaticHandleKindChange(c.selector, c.selector.kind)
  IN NotifyOwner([c EXCEPT !.selector =
        [sel EXCEPT !.kind = Null, !.criteria = Null, !.cluster = Null]])

StaticGetKind(sel) == parseSpinnakerName(sel.manifestName).kind

DynamicHandleKindChange(sel, kind) == [sel EXCEPT !.kind = kind]

\* a handleModeChange that keeps the kind field instead of taking the kind from
\* manifestName
DynamicHandleModeChangeKeepsKind(c) ==
  NotifyOwner([c EXCEPT !.selector = [c.selector EXCEPT !.manifestName = Null]])

DynamicHandleModeChange(c) ==
  LET kind == parseSpinnakerName(c.selector.manifestName).kind
  IN NotifyOwner([c EXCEPT !.selector =
        [c.selector EXCEPT !.kind = kind, !.manifestName = Null]])

DynamicGetKind(sel) == sel.kind

\* modeDelegate(): the handler that handles (selector.mode || Static)
modeDelegate(sel) ==
  LET mode == IF Truthy(sel.mode) THEN sel.mode ELSE SelectorModeStatic
  IN IF mode = SelectorModeStatic THEN "Static" ELSE "Dynamic"

(***************************************************************************)
(* The search pipeline.                                                    *)
(***************************************************************************)
\* search(kind, namespace, account): the promise it returns and the call it
\* makes. A guarded promise is $q.resolve([]); the other one is the service's,
\* mapped to the sorted names.
searchUnguarded(c, t) ==
  LET id == Len(c.lookups) + 1
  IN [c EXCEPT !.searched = Append(@, [lookup |-> id, kind |-> t.kind,
                                        namespace |-> t.namespace, account |-> t.account]),
               !.lookups = Append(@, [guarded |-> FALSE, status |-> "pending",
                                      result |-> <<>>]),
               !.calls = Append(@, [lookup |-> id, kind |-> t.kind,
                                    namespace |-> t.namespace, account |-> t.account])]

search(c, t) ==
  LET id == Len(c.lookups) + 1
      c1 == [c EXCEPT !.searched = Append(@, [lookup |-> id, kind |-> t.kind,
                                               namespace |-> t.namespace,
                                               account |-> t.account])]
  IN IF isExpression(t.account)
     THEN [c1 EXCEPT !.lookups = Append(@, [guarded |-> TRUE, status |-> "pending",
                                            result |-> <<>>])]
     ELSE [c1 EXCEPT !.lookups = Append(@, [guarded |-> FALSE, status |-> "pending",
                                            result |-> <<>>]),
                     !.calls = Append(@, [lookup |-> id, kind |-> t.kind,
                                          namespace |-> t.namespace,
                                          account |-> t.account])]

\* search$.next(t): do(loading: true), then switchMap onto search(t); without a
\* live subscription the subject has no observer and the triple is dropped
searchNext(c, t) ==
  LET c1 == [c EXCEPT !.pushed = Append(@, t)]
  IN IF c.pipeline # "live" THEN c1
     ELSE LET c2 == [c1 EXCEPT !.loading = TRUE]
          IN IF isExpressionThrows(t.account)
             THEN [c2 EXCEPT !.pipeline = "errored", !.threw = TRUE]
             ELSE search(c2, t)

(***************************************************************************)
(* The field setters.                                                      *)
(***************************************************************************)
handleNameChangeOn(c, selectedName) ==
  LET kind == parseSpinnakerName(c.selector.manifestName).kind
  IN NotifyOwner([c EXCEPT !.selector.manifestName =
        IF Truthy(kind) THEN kind \o <<SP>> \o selectedName ELSE <<SP>> \o selectedName])

\* the kinds of an account, filtered by props.includeSpinnakerKinds and sorted
KindsOf(details) ==
  LET entries == details.spinnakerKindMap
      keep(e) == IF Len(includeSpinnakerKinds) > 0
                 THEN \E i \in 1..Len(includeSpinnakerKinds) : includeSpinnakerKinds[i] = e[2]
                 ELSE TRUE
      kept == SelectSeq(entries, keep)
  IN SortStrings([i \in 1..Len(kept) |-> kept[i][1]])

handleAccountChangeOn(c, selectedAccount) ==
  LET found == { i \in 1..Len(c.accounts) : c.accounts[i].name = selectedAccount }
  IN IF found = {} THEN c
     ELSE
       LET i == CHOOSE j \in found : \A k \in found : j <= k
           nss == SortStrings(c.accounts[i].namespaces)
           ks == KindsOf(c.accounts[i])
           \* Array.prototype.sort sorts details.namespaces in place
           c1 == [c EXCEPT !.accounts[i].namespaces = nss]
           loc == c1.selector.location
       IN IF isExpressionThrows(loc) THEN [c1 EXCEPT !.threw = TRUE]
          ELSE
            LET clear == ~isExpression(loc) /\ \A n \in 1..Len(nss) : nss[n] # loc
                sel == [c1.selector EXCEPT !.location = IF clear THEN Null ELSE @,
                                           !.account = selectedAccount]
                pk == parseSpinnakerName(sel.manifestName).kind
                c2 == searchNext([c1 EXCEPT !.selector = sel],
                                 [kind |-> IF Truthy(pk) THEN pk ELSE sel.kind,
                                  namespace |-> sel.location, account |-> sel.account])
            IN IF c2.threw THEN c2
               ELSE LET c3 == NotifyOwner(c2)
                    IN IF Mounted THEN [c3 EXCEPT !.namespaces = nss, !.kinds = ks] ELSE c3

handleNamespaceChangeOn(c, value) ==
  LET sel == [c.selector EXCEPT !.location = IF Truthy(value) THEN value ELSE Null]
      c1 == searchNext([c EXCEPT !.selector = sel],
                       [kind |-> parseSpinnakerName(sel.manifestName).kind,
                        namespace |-> sel.location, account |-> sel.account])
  IN IF c1.threw THEN c1 ELSE NotifyOwner(c1)

handleKindChangeOn(c, kind) ==
  LET sel == IF modeDelegate(c.selector) = "Static"
             THEN StaticHandleKindChange(c.selector, kind)
             ELSE DynamicHandleKindChange(c.selector, kind)
  IN searchNext([c EXCEPT !.selector = sel],
                [kind |-> kind, namespace |-> sel.location, account |-> sel.account])

handleModeSelectOn(c, mode) ==
  LET c1 == NotifyOwner([c EXCEPT !.selector.mode = mode])
  IN IF modeDelegate(c1.selector) = "Static"
     THEN StaticHandleModeChange(c1)
     ELSE DynamicHandleModeChange(c1)

handleClusterChangeOn(c, clusterName) ==
  NotifyOwner([c EXCEPT !.selector.cluster = clusterName])

handleCriteriaChangeOn(c, criteria) ==
  NotifyOwner([c EXCEPT !.selector.criteria = criteria])

\* the subscriber of the pipeline: a lookup's names arrive
subscriberOn(c, names) ==
  LET c1 == IF IsNullish(c.selector.manifestName) THEN handleNameChangeOn(c, <<>>) ELSE c
  IN [c1 EXCEPT !.loading = FALSE, !.resources = names]

\* the then-callback of loadAccounts
loadAccountsOn(c, accts) ==
  LET kind == parseSpinnakerName(c.selector.manifestName).kind
      c1 == IF Mounted THEN [c EXCEPT !.accounts = accts] ELSE c
      hasDefault == \E i \in 1..Len(accts) : accts[i].name = DefaultAccount
      c2 == IF ~Truthy(c1.selector.account) /\ Len(accts) > 0
            THEN [c1 EXCEPT !.selector.account =
                    IF hasDefault THEN DefaultAccount ELSE accts[1].name]
            ELSE c1
      c3 == IF Truthy(c2.selector.account)
            THEN handleAccountChangeOn(c2, c2.selector.account)
            ELSE c2
  IN IF c3.threw \/ ~Truthy(kind) THEN c3
     ELSE searchNext(c3, [kind |-> kind, namespace |-> c3.selector.location,
                          account |-> c3.selector.account])

(***************************************************************************)
(* The Executions component (Executions.tsx): starting a manual execution  *)
(* and the scroll decision of handleTransitionSuccess. It shares no state  *)
(* with the ManifestSelector and is checked under SpecExecutions.          *)
(***************************************************************************)
\* router states: the executions page, an execution on it, and another page
StateExecutions == <<"e">>
StateExecution == <<"e", "x">>
StateOther == <<"p">>

\* a state with its parameters; only an execution has executionId, stage, step
\* and details
RouterStates ==
  { [name |-> n, application |-> a, executionId |-> Undefined, stage |-> Undefined,
     step |-> Undefined, details |-> Undefined] :
       n \in {StateExecutions, StateOther}, a \in { <<"a">>, <<"b">> } }
  \cup
  { [name |-> StateExecution, application |-> a, executionId |-> e, stage |-> g,
     step |-> p, details |-> d] :
       a \in { <<"a">>, <<"b">> }, e \in { <<"x">>, <<"y">> }, g \in { <<"m">>, <<"n">> },
       p \in { <<"m">>, <<"n">> }, d \in { Undefined, <<"m">>, <<"n">> } }

\* the constructor: triggeringExecution is false
ExecutionsInit ==
  /\ triggeringExecution = FALSE
  /\ triggerPromise = "none"
  /\ monitor = "none"
  /\ transition = [from |-> CHOOSE r \in RouterStates :
                              r.name = StateOther /\ r.application = <<"a">>,
                   to |-> CHOOSE r \in RouterStates :
                            r.name = StateExecutions /\ r.application = <<"a">>]
  /\ scrolled = FALSE

\* to.name.indexOf(from.name) === 0
IndexOfIsZero(toName, fromName) ==
  Len(fromName) <= Len(toName) /\ SubSeq(toName, 1, Len(fromName)) = fromName

\* a scroll decision without the test of toParams.details
shouldScrollAnyDetails(from, to) ==
  IF IndexOfIsZero(to.name, from.name) /\ to.application = from.application
       /\ Truthy(to.executionId)
  THEN IF to.executionId = from.executionId
       THEN ~(to.stage # from.stage \/ to.step # from.step \/ to.details # from.details)
       ELSE TRUE
  ELSE FALSE

\* the value of shouldScroll in handleTransitionSuccess
shouldScroll(from, to) ==
  IF IndexOfIsZero(to.name, from.name) /\ to.application = from.application
       /\ Truthy(to.executionId)
  THEN IF to.executionId = from.executionId /\ Truthy(to.details)
       THEN ~(to.stage # from.stage \/ to.step # from.step \/ to.details # from.details)
       ELSE TRUE
  ELSE FALSE

\* the router completes a transition from its current state
handleTransitionSuccess ==
  /\ \E to \in RouterStates :
       /\ transition' = [from |-> transition.to, to |-> to]
       /\ scrolled' = shouldScroll(transition.to, to)
  /\ UNCHANGED <<triggeringExecution, triggerPromise, monitor, selectorVars>>

\* the Start Manual Execution button takes no click while triggeringExecution
startPipeline ==
  /\ ~triggeringExecution
  /\ triggerPromise # "pending"
  /\ monitor # "pending"
  /\ triggeringExecution' = TRUE
  /\ triggerPromise' = "pending"
  /\ monitor' = "none"
  /\ UNCHANGED <<transition, scrolled, selectorVars>>

\* triggerPipeline resolves with the new pipeline id: the monitor starts
triggerPipelineResolved ==
  /\ triggerPromise = "pending"
  /\ triggerPromise' = "resolved"
  /\ monitor' = "pending"
  /\ UNCHANGED <<triggeringExecution, transition, scrolled, selectorVars>>

triggerPipelineRejected ==
  /\ triggerPromise = "pending"
  /\ triggerPromise' = "rejected"
  /\ triggeringExecution' = FALSE
  /\ UNCHANGED <<monitor, transition, scrolled, selectorVars>>

monitorResolved ==
  /\ monitor = "pending"
  /\ monitor' = "resolved"
  /\ triggeringExecution' = FALSE
  /\ UNCHANGED <<triggerPromise, transition, scrolled, selectorVars>>

\* monitor.then has no rejection callback
monitorRejected ==
  /\ monitor = "pending"
  /\ monitor' = "rejected"
  /\ UNCHANGED <<triggeringExecution, triggerPromise, transition, scrolled, selectorVars>>

NextExecutions ==
  \/ handleTransitionSuccess
  \/ startPipeline
  \/ triggerPipelineResolved
  \/ triggerPipelineRejected
  \/ monitorResolved
  \/ monitorRejected

(***************************************************************************)
(* The state machine.                                                      *)
(***************************************************************************)
NoOp == [op |-> "constructor", arg |-> Undefined, id |-> 0, prev |-> FreshSelector,
         notified |-> FALSE, pushed |-> <<>>, searched |-> <<>>, calls |-> <<>>,
         threw |-> FALSE]

\* the constructor: a Selector without a mode becomes Static and the owner is told
Init ==
  \E given \in InitialSelectors :
    /\ phase = "constructed"
    /\ selector = IF Truthy(given.mode) THEN given
                  ELSE [given EXCEPT !.mode = SelectorModeStatic]
    /\ owner = selector
    /\ accounts = <<>>
    /\ namespaces = <<>>
    /\ kinds = <<>>
    /\ resources = <<>>
    /\ loading = FALSE
    /\ accountsPending = FALSE
    /\ pipeline = "none"
    /\ lookups = <<>>
    /\ edits = 0
    /\ modeChanged = FALSE
    /\ last = [NoOp EXCEPT !.prev = given, !.notified = ~Truthy(given.mode)]
    /\ ExecutionsInit

\* the state an operation leaves, and the record of it
Commit(c, op, arg, id) ==
  /\ selector' = c.selector
  /\ owner' = c.owner
  /\ accounts' = c.accounts
  /\ namespaces' = c.namespaces
  /\ kinds' = c.kinds
  /\ resources' = c.resources
  /\ loading' = c.loading
  /\ pipeline' = c.pipeline
  /\ lookups' = c.lookups
  /\ last' = [op |-> op, arg |-> arg, id |-> id, prev |-> selector,
              notified |-> c.notified, pushed |-> c.pushed, searched |-> c.searched,
              calls |-> c.calls, threw |-> c.threw]
  /\ UNCHANGED executionsVars

\* room for n more lookups
CanPush(n) == pipeline # "live" \/ Len(lookups) + n <= MaxSearches

componentDidMount ==
  /\ phase = "constructed"
  /\ phase' = "mounted"
  /\ accountsPending' = TRUE
  /\ pipeline' = "live"
  /\ last' = [NoOp EXCEPT !.op = "componentDidMount", !.prev = selector]
  /\ UNCHANGED <<selector, owner, accounts, namespaces, kinds, resources, loading,
                 lookups, edits, modeChanged, executionsVars>>

componentWillUnmount ==
  /\ phase = "mounted"
  /\ phase' = "unmounted"
  /\ pipeline' = IF pipeline = "live" THEN "completed" ELSE pipeline
  /\ last' = [NoOp EXCEPT !.op = "componentWillUnmount", !.prev = selector]
  /\ UNCHANGED <<selector, owner, accounts, namespaces, kinds, resources, loading,
                 accountsPending, lookups, edits, modeChanged, executionsVars>>

loadAccounts ==
  /\ accountsPending
  /\ CanPush(2)
  /\ \E accts \in AccountLists :
       Commit(loadAccountsOn(Ctx, accts), "loadAccounts", Undefined, 0)
  /\ accountsPending' = FALSE
  /\ UNCHANGED <<phase, edits, modeChanged>>

handleAccountChange ==
  /\ Mounted
  /\ edits < MaxEdits
  /\ CanPush(1)
  /\ \E i \in 1..Len(accounts) :
       Commit(handleAccountChangeOn(Ctx, accounts[i].name), "handleAccountChange",
              accounts[i].name, 0)
  /\ edits' = edits + 1
  /\ UNCHANGED <<phase, accountsPending, modeChanged>>

handleNamespaceChange ==
  /\ Mounted
  /\ edits < MaxEdits
  /\ CanPush(1)
  /\ \E v \in NamespaceInputs :
       Commit(handleNamespaceChangeOn(Ctx, v), "handleNamespaceChange", v, 0)
  /\ edits' = edits + 1
  /\ UNCHANGED <<phase, accountsPending, modeChanged>>

handleKindChange ==
  /\ Mounted
  /\ edits < MaxEdits
  /\ CanPush(1)
  /\ \E k \in KindInputs :
       Commit(handleKindChangeOn(Ctx, k), "handleKindChange", k, 0)
  /\ edits' = edits + 1
  /\ UNCHANGED <<phase, accountsPending, modeChanged>>

\* the Name field is rendered in Static mode only
handleNameChange ==
  /\ Mounted
  /\ edits < MaxEdits
  /\ modeDelegate(selector) = "Static"
  /\ \E n \in NameInputs :
       Commit(handleNameChangeOn(Ctx, n), "handleNameChange", n, 0)
  /\ edits' = edits + 1
  /\ UNCHANGED <<phase, accountsPending, modeChanged>>

\* a radio button fires onChange when it becomes the checked one
handleModeSelect ==
  /\ Mounted
  /\ edits < MaxEdits
  /\ \E m \in {SelectorModeStatic, SelectorModeDynamic} :
       /\ m # selector.mode
       /\ Commit(handleModeSelectOn(Ctx, m), "handleModeSelect", m, 0)
  /\ edits' = edits + 1
  /\ modeChanged' = TRUE
  /\ UNCHANGED <<phase, accountsPending>>

\* the Cluster and Target fields are rendered in Dynamic mode only
handleClusterChange ==
  /\ Mounted
  /\ edits < MaxEdits
  /\ modeDelegate(selector) = "Dynamic"
  /\ \E v \in ClusterInputs :
       Commit(handleClusterChangeOn(Ctx, v), "handleClusterChange", v, 0)
  /\ edits' = edits + 1
  /\ UNCHANGED <<phase, accountsPending, modeChanged>>

handleCriteriaChange ==
  /\ Mounted
  /\ edits < MaxEdits
  /\ modeDelegate(selector) = "Dynamic"
  /\ \E v \in CriteriaInputs :
       Commit(handleCriteriaChangeOn(Ctx, v), "handleCriteriaChange", v, 0)
  /\ edits' = edits + 1
  /\ UNCHANGED <<phase, accountsPending, modeChanged>>

\* switchMap keeps the subscription to the promise of the last triple only;
\* takeUntil(destroy$) and an error end the subscription altogether
\* mergeMap in place of switchMap: every promise stays subscribed
DeliveredMergeMap(i) == pipeline = "live"

Delivered(i) == pipeline = "live" /\ i = Len(lookups)

\* the promise of lookup i is fulfilled
searchResolved ==
  /\ \E i \in 1..Len(lookups) : \E response \in SearchResponses :
       /\ lookups[i].status = "pending"
       /\ lookups[i].guarded => response = <<>>
       /\ LET names == IF lookups[i].guarded THEN <<>> ELSE SortStrings(response)
              c == [Ctx EXCEPT !.lookups[i].status = "resolved",
                               !.lookups[i].result = names]
          IN Commit(IF Delivered(i) THEN subscriberOn(c, names) ELSE c,
                    "searchResolved", Undefined, i)
  /\ UNCHANGED <<phase, accountsPending, edits, modeChanged>>

\* the promise of lookup i is rejected: the error reaches the subscriber, which
\* has no error callback, and ends the subscription
searchRejected ==
  /\ \E i \in 1..Len(lookups) :
       /\ lookups[i].status = "pending"
       /\ ~lookups[i].guarded
       /\ LET c == [Ctx EXCEPT !.lookups[i].status = "rejected"]
          IN Commit(IF Delivered(i) THEN [c EXCEPT !.pipeline = "errored"] ELSE c,
                    "searchRejected", Undefined, i)
  /\ UNCHANGED <<phase, accountsPending, edits, modeChanged>>

Next ==
  \/ componentDidMount
  \/ componentWillUnmount
  \/ loadAccounts
  \/ handleAccountChange
  \/ handleNamespaceChange
  \/ handleKindChange
  \/ handleNameChange
  \/ handleModeSelect
  \/ handleClusterChange
  \/ handleCriteriaChange
  \/ searchResolved
  \/ searchRejected

Spec == Init /\ [][Next]_vars

SpecExecutions == Init /\ [][NextExecutions]_vars

(***************************************************************************)
(* Properties.                                                             *)
(***************************************************************************)
Latest == Len(lookups)

\* C1: latest-wins. A lookup that resolves after a later triple was pushed
\* applies nothing to resources, loading or the Selector; and while the
\* subscription is live, once the lookup of the last pushed triple has resolved,
\* resources holds that lookup's result, whatever the order of the resolutions.
C1_LatestWins ==
  [][ /\ (last'.op = "searchResolved" /\ last'.id < Len(lookups'))
           => (resources' = resources /\ loading' = loading /\ selector' = selector)
      /\ (pipeline' = "live" /\ Len(lookups') > 0
            /\ lookups'[Len(lookups')].status = "resolved")
           => (resources' = lookups'[Len(lookups')].result /\ loading' = FALSE)
    ]_vars

\* T2 resolved first, then T1 with another result: resources is still T2's
C1_Witness ==
  /\ last.op = "searchResolved"
  /\ last.id = 1
  /\ Latest = 2
  /\ pipeline = "live"
  /\ lookups[2].status = "resolved"
  /\ lookups[1].result # lookups[2].result
  /\ resources = lookups[2].result

\* C2: once a handleModeChange has run: in Static mode kind, cluster and
\* criteria are null; in Dynamic mode manifestName is null (kind is the field
\* the Dynamic handler reads).
C2_ModeInvariant ==
  modeChanged =>
    /\ selector.mode = SelectorModeStatic
         => (selector.kind = Null /\ selector.cluster = Null /\ selector.criteria = Null)
    /\ selector.mode = SelectorModeDynamic => selector.manifestName = Null

\* C3: after handleModeSelect(Static) on a Dynamic Selector, kind, criteria and
\* cluster are null and manifestName is exactly the prior kind (no kind and no
\* name when the prior kind was absent).
C3_IntoStatic ==
  (last.op = "handleModeSelect" /\ last.arg = SelectorModeStatic
     /\ last.prev.mode = SelectorModeDynamic)
  => /\ selector.kind = Null
     /\ selector.criteria = Null
     /\ selector.cluster = Null
     /\ IF Truthy(last.prev.kind)
        THEN selector.manifestName = last.prev.kind
        ELSE ~Truthy(selector.manifestName)

C3_Witness ==
  /\ last.op = "handleModeSelect"
  /\ last.arg = SelectorModeStatic
  /\ last.prev.mode = SelectorModeDynamic
  /\ last.prev.kind = KindD
  /\ Truthy(last.prev.cluster)
  /\ selector.manifestName = KindD

\* the part of a manifestName before its first space ('' for null or undefined)
BeforeFirstSpace(v) ==
  IF IsNullish(v) THEN <<>>
  ELSE LET n == CHOOSE k \in 0..Len(v) :
                  /\ \A j \in 1..k : v[j] # SP
                  /\ (k = Len(v) \/ v[k + 1] = SP)
       IN SubSeq(v, 1, n)

\* C4: after handleModeSelect(Dynamic) on a Static Selector, manifestName is
\* null and kind is the part of the prior manifestName before its first space
\* (empty, that is absent, when there was no kind prefix).
C4_IntoDynamic ==
  (last.op = "handleModeSelect" /\ last.arg = SelectorModeDynamic
     /\ last.prev.mode = SelectorModeStatic)
  => /\ selector.manifestName = Null
     /\ selector.kind = BeforeFirstSpace(last.prev.manifestName)

C4_Witness ==
  /\ last.op = "handleModeSelect"
  /\ last.arg = SelectorModeDynamic
  /\ last.prev.mode = SelectorModeStatic
  /\ last.prev.manifestName = <<"D", " ", "n">>
  /\ last.prev.kind # KindD
  /\ selector.kind = KindD

\* C5: after componentWillUnmount no callback changes loading, resources or the
\* Selector, no triple is searched and the owner's onChange is not invoked.
C5_Teardown ==
  [][ phase = "unmounted"
        => /\ selector' = selector
           /\ loading' = loading
           /\ resources' = resources
           /\ ~last'.notified
           /\ last'.searched = <<>>
    ]_vars

\* the account of a triple holds the marker
HasMarker(account) ==
  /\ account # Undefined
  /\ account # Null
  /\ \E i \in 1..Len(account) : i < Len(account) /\ account[i] = "$" /\ account[i + 1] = "{"

\* C6: expression guard. Of the triples an operation hands to search(), one
\* whose account holds the marker makes no call of the service and its promise
\* yields the empty list; any other makes exactly one call, with its kind,
\* namespace and account. No other call is made.
C6_ExpressionGuard ==
  /\ \A k \in 1..Len(last.searched) :
       LET t == last.searched[k]
           mine == { j \in 1..Len(last.calls) : last.calls[j].lookup = t.lookup }
       IN IF HasMarker(t.account)
          THEN /\ mine = {}
               /\ lookups[t.lookup].status = "pending"
               /\ lookups[t.lookup].guarded
          ELSE /\ Cardinality(mine) = 1
               /\ \A j \in mine : /\ last.calls[j].kind = t.kind
                                  /\ last.calls[j].namespace = t.namespace
                                  /\ last.calls[j].account = t.account
  /\ \A j \in 1..Len(last.calls) :
       \E k \in 1..Len(last.searched) : last.searched[k].lookup = last.calls[j].lookup
  /\ \A i \in 1..Len(lookups) :
       (lookups[i].guarded /\ lookups[i].status = "resolved") => lookups[i].result = <<>>
  /\ (last.op = "searchResolved" /\ lookups[last.id].guarded /\ last.id = Latest
        /\ pipeline = "live") => resources = <<>>

C6_Witness ==
  /\ last.op = "searchResolved"
  /\ lookups[last.id].guarded
  /\ last.id = Latest
  /\ pipeline = "live"
  /\ resources = <<>>
  /\ last.prev.account = ExpressionValue

\* C7: after handleAccountChange(a) for an account a of the loaded list,
\* selector.account is a, and selector.location is null if the previous
\* location was not templated and is not a namespace of a, and is the previous
\* location otherwise.
C7_AccountSwitch ==
  last.op = "handleAccountChange" =>
    LET a == CHOOSE d \in {accounts[i] : i \in 1..Len(accounts)} : d.name = last.arg
        prior == last.prev.location
        inList == \E i \in 1..Len(a.namespaces) : a.namespaces[i] = prior
    IN /\ selector.account = last.arg
       /\ selector.location = IF ~HasMarker(prior) /\ ~inList THEN Null ELSE prior

\* C8: round trip. After the name setter packs a name under the kind of the
\* Selector, parseSpinnakerName gives back that kind (absent stays absent) and
\* that name.
C8_RoundTrip ==
  last.op = "handleNameChange" =>
    LET kind == parseSpinnakerName(last.prev.manifestName).kind
        back == parseSpinnakerName(selector.manifestName)
    IN /\ back.name = last.arg
       /\ IF Truthy(kind) THEN back.kind = kind ELSE ~Truthy(back.kind)

\* "<kind> <name>", "<kind>" or " <name>"
Reconstructed(kind, name) ==
  IF Truthy(kind)
  THEN (IF Truthy(name) THEN kind \o <<SP>> \o name ELSE kind)
  ELSE <<SP>> \o (IF Truthy(name) THEN name ELSE <<>>)

\* C9: reconstruction rule. A manifestName written by handleNameChange or by
\* the Static handler's handleKindChange is "<kind> <name>" when the kind is
\* present and the name non-empty, "<kind>" when the kind is present and the
\* name empty, and " <name>" when the kind is absent.
C9_Reconstruction ==
  /\ last.op = "handleNameChange"
       => selector.manifestName =
            Reconstructed(parseSpinnakerName(last.prev.manifestName).kind, last.arg)
  /\ (last.op = "handleKindChange" /\ modeDelegate(last.prev) = "Static")
       => selector.manifestName =
            Reconstructed(last.arg, parseSpinnakerName(last.prev.manifestName).name)

\* C10: an operation that changes a field of the Selector invokes the owner's
\* onChange after the change: when it returns the owner has been handed the
\* Selector as it now is.
C10_OwnerNotified ==
  (last.op \in {"constructor", "handleAccountChange", "handleNamespaceChange",
                "handleKindChange", "handleNameChange", "handleModeSelect",
                "handleClusterChange", "handleCriteriaChange"}
     /\ selector # last.prev)
  => (last.notified /\ owner = selector)

\* getKind() of the handler modeDelegate() finds
getKind(sel) ==
  IF modeDelegate(sel) = "Static" THEN StaticGetKind(sel) ELSE DynamicGetKind(sel)

\* two kinds are the same kind: equal, or both absent
SameKind(k1, k2) == k1 = k2 \/ (~Truthy(k1) /\ ~Truthy(k2))

\* C11: search re-trigger. handleAccountChange (known account),
\* handleNamespaceChange and handleKindChange each push exactly one triple on
\* search$, holding the kind the active handler's getKind reads, the location
\* and the account of the Selector after the change.
C11_SearchRetrigger ==
  last.op \in {"handleAccountChange", "handleNamespaceChange", "handleKindChange"}
  => /\ Len(last.pushed) = 1
     /\ SameKind(last.pushed[1].kind, getKind(selector))
     /\ last.pushed[1].namespace = selector.location
     /\ last.pushed[1].account = selector.account

\* C12: loading flag. Before teardown loading is true exactly when the lookup
\* of the last pushed triple is outstanding; when that lookup has completed
\* resources holds its names.
C12_LoadingFlag ==
  phase # "unmounted" =>
    /\ loading <=> (Len(lookups) > 0 /\ lookups[Len(lookups)].status = "pending")
    /\ (Len(lookups) > 0 /\ lookups[Len(lookups)].status = "resolved")
         => resources = lookups[Len(lookups)].result

\* C13: placeholder. After a lookup's completion has reached the subscriber the
\* name parsed from manifestName is a string, never absent.
C13_Placeholder ==
  (last.op = "searchResolved" /\ last.id = Len(lookups) /\ pipeline = "live")
  => parseSpinnakerName(selector.manifestName).name # Undefined

\* C14: a lookup failure is not fatal. A triple pushed after some lookup was
\* rejected is still processed: loading is set and the lookup is issued.
C14_FailureNotFatal ==
  (/\ phase = "mounted"
   /\ \E i \in 1..Len(lookups) : lookups[i].status = "rejected"
   /\ last.op \in {"handleAccountChange", "handleNamespaceChange", "handleKindChange"}
   /\ last.pushed # <<>>)
  => (loading /\ Len(last.searched) = Len(last.pushed))

\* C15: once triggerPipeline and the monitor have both settled,
\* triggeringExecution is false again, whatever the outcome.
C15_TriggeringCleared ==
  (triggerPromise = "rejected"
     \/ (triggerPromise = "resolved" /\ monitor \in {"resolved", "rejected"}))
  => ~triggeringExecution

SamePageAndApplication(from, to) ==
  /\ Len(from.name) <= Len(to.name)
  /\ \A i \in 1..Len(from.name) : to.name[i] = from.name[i]
  /\ to.application = from.application

DifferentStage(from, to) ==
  to.stage # from.stage \/ to.step # from.step \/ to.details # from.details

====
